---- MODULE Spec2Model ----
(***************************************************************************)
(* A model of vixscript (src/vixscript.py): the lexer, the recursive       *)
(* descent parser, the Runtime, the tree-walking Interpreter, the          *)
(* extension loader and the two drivers (run_code and the REPL).           *)
(*                                                                         *)
(* Source text is a sequence of one-character strings.  Python values are  *)
(* records [t, n, d, s]: t is the type tag, n/d the number as a reduced    *)
(* fraction (a float is modelled by the exact rational it stands for), s   *)
(* the text of a str.                                                      *)
(***************************************************************************)
EXTENDS Integers, Sequences, FiniteSets, TLC

VARIABLES
  src,      \* the source text handed to the function under way
  lx,       \* lex(src): [ok, toks, err]
  pres,     \* the parser's result: [ok, node, i, err]
  phase,    \* where Parser(lex(src)) stands: "src", "lexed", "expr", "prog"
  rt,       \* repl(): the Runtime the REPL keeps for the whole session
  replOut,  \* repl(): the values its Interpreter handed to the output sink
  replPc,   \* repl(): "loop" while reading lines, "done" after EOF / Ctrl+C
  runRt,    \* run_code(): the Runtime of the last call, as it was when eval left
  runOut,   \* run_code(): the values the last call handed to its output sink
  ret,      \* run_code(): the value the last call returned
  err,      \* the error the last run_code / REPL line ended with (NoErr: none)
  last,     \* the source of the last run_code call / REPL line
  entry,    \* which driver handled `last`: "none", "run_code", "repl"
  n         \* the number of inputs handled so far

vars == <<src, lx, pres, phase, rt, replOut, replPc, runRt, runOut, ret, err, last, entry, n>>

(***************************************************************************)
(* Characters                                                              *)
(***************************************************************************)
Digits == {"0", "1", "2", "3", "4", "5", "6", "7", "8", "9"}

Lower == {"a", "b", "c", "d", "e", "f", "g", "h", "i", "j", "k", "l", "m",
          "n", "o", "p", "q", "r", "s", "t", "u", "v", "w", "x", "y", "z"}

Upper == {"A", "B", "C", "D", "E", "F", "G", "H", "I", "J", "K", "L", "M",
          "N", "O", "P", "Q", "R", "S", "T", "U", "V", "W", "X", "Y", "Z"}

OpChars == {"+", "-", "*", "/", "=", "(", ")", ","}

\* The printable ASCII characters in code order: Ascii[k] is chr(31 + k).  The
\* apostrophe and the backquote are written by their names, chr(39) and chr(96).
Ascii ==
  <<" ", "!", "\"", "#", "$", "%", "&", "chr(39)", "(", ")", "*", "+", ",", "-", ".", "/",
    "0", "1", "2", "3", "4", "5", "6", "7", "8", "9", ":", ";", "<", "=", ">", "?",
    "@", "A", "B", "C", "D", "E", "F", "G", "H", "I", "J", "K", "L", "M", "N", "O",
    "P", "Q", "R", "S", "T", "U", "V", "W", "X", "Y", "Z", "[", "\\", "]", "^", "_",
    "chr(96)", "a", "b", "c", "d", "e", "f", "g", "h", "i", "j", "k", "l", "m", "n", "o",
    "p", "q", "r", "s", "t", "u", "v", "w", "x", "y", "z", "{", "|", "}", "~">>

ChrOf(c) ==
  IF c \in 32..126 THEN Ascii[c - 31]
  ELSE IF c = 10 THEN "\n"
  ELSE IF c = 9 THEN "\t"
  ELSE "chr(" \o ToString(c) \o ")"

DigitVal(c) ==
  CASE c = "0" -> 0 [] c = "1" -> 1 [] c = "2" -> 2 [] c = "3" -> 3 [] c = "4" -> 4
    [] c = "5" -> 5 [] c = "6" -> 6 [] c = "7" -> 7 [] c = "8" -> 8 [] c = "9" -> 9

IsHex(c) == c \in Digits \cup {"a", "b", "c", "d", "e", "f", "A", "B", "C", "D", "E", "F"}

HexVal(c) ==
  CASE c \in Digits -> DigitVal(c)
    [] c \in {"a", "A"} -> 10 [] c \in {"b", "B"} -> 11 [] c \in {"c", "C"} -> 12
    [] c \in {"d", "D"} -> 13 [] c \in {"e", "E"} -> 14 [] c \in {"f", "F"} -> 15

(***************************************************************************)
(* Values and errors                                                       *)
(***************************************************************************)
RECURSIVE Gcd(_, _)
Gcd(a, b) == IF b = 0 THEN a ELSE Gcd(b, a % b)

Abs(a) == IF a < 0 THEN -a ELSE a

IntV(k) == [t |-> "int", n |-> k, d |-> 1, s |-> ""]

\* a float, kept as the reduced fraction num/den (den /= 0)
FloatV(num, den) ==
  LET g == Gcd(Abs(num), Abs(den))
      sg == IF den < 0 THEN -1 ELSE 1
  IN [t |-> "float", n |-> (sg * num) \div g, d |-> (sg * den) \div g, s |-> ""]

StrV(text) == [t |-> "str", n |-> 0, d |-> 1, s |-> text]

NoneV == [t |-> "none", n |-> 0, d |-> 1, s |-> ""]

NoErr == [cls |-> "", msg |-> ""]

Error(c, m) == [cls |-> c, msg |-> m]

(***************************************************************************)
(* Lexer                                                                   *)
(***************************************************************************)
Token(kind, value, pos) == [kind |-> kind, value |-> value, pos |-> pos]

Keywords == {"let", "print", "use"}

\* The end of the longest run of c-characters of text starting at i (i itself: none).
RECURSIVE RunEnd(_, _, _)
RunEnd(text, i, cs) ==
  IF i <= Len(text) /\ text[i] \in cs THEN RunEnd(text, i + 1, cs) ELSE i

\* Each Match<RULE>(text, i) is the index after the match of the rule at i, 0: no match.
\* NUMBER  \d+(\.\d+)?
MatchNUMBER(text, i) ==
  LET e == RunEnd(text, i, Digits) IN
  IF e = i THEN 0
  ELSE IF e <= Len(text) /\ text[e] = "." /\ RunEnd(text, e + 1, Digits) > e + 1
       THEN RunEnd(text, e + 1, Digits)
       ELSE e

\* the body and the closing quote of STRING  "([^"\\]|\\.)*"
RECURSIVE StringEnd(_, _)
StringEnd(text, j) ==
  IF j > Len(text) THEN 0
  ELSE IF text[j] = "\"" THEN j + 1
  ELSE IF text[j] = "\\"
       THEN IF j + 1 <= Len(text) /\ text[j + 1] # "\n" THEN StringEnd(text, j + 2) ELSE 0
  ELSE StringEnd(text, j + 1)

MatchSTRING(text, i) == IF text[i] = "\"" THEN StringEnd(text, i + 1) ELSE 0

\* ID  [A-Za-z_][A-Za-z0-9_]*
MatchID(text, i) ==
  IF text[i] \in Lower \cup Upper \cup {"_"}
  THEN RunEnd(text, i + 1, Lower \cup Upper \cup Digits \cup {"_"})
  ELSE 0

\* OP  [\+\-\*/=(),]
MatchOP(text, i) == IF text[i] \in OpChars THEN i + 1 ELSE 0

\* NEWLINE  \n
MatchNEWLINE(text, i) == IF text[i] = "\n" THEN i + 1 ELSE 0

\* SKIP  [ \t]+
MatchSKIP(text, i) == IF text[i] \in {" ", "\t"} THEN RunEnd(text, i + 1, {" ", "\t"}) ELSE 0

\* COMMENT  \#.*   (. matches anything but a newline)
RECURSIVE LineEnd(_, _)
LineEnd(text, i) == IF i <= Len(text) /\ text[i] # "\n" THEN LineEnd(text, i + 1) ELSE i

MatchCOMMENT(text, i) == IF text[i] = "#" THEN LineEnd(text, i + 1) ELSE 0

\* MASTER_RE at position i: the first rule of TOKEN_SPEC, in its order, that matches.
MasterMatch(text, i) ==
  CASE MatchNUMBER(text, i) > 0  -> [kind |-> "NUMBER", e |-> MatchNUMBER(text, i)]
    [] MatchSTRING(text, i) > 0  -> [kind |-> "STRING", e |-> MatchSTRING(text, i)]
    [] MatchID(text, i) > 0      -> [kind |-> "ID", e |-> MatchID(text, i)]
    [] MatchOP(text, i) > 0      -> [kind |-> "OP", e |-> MatchOP(text, i)]
    [] MatchNEWLINE(text, i) > 0 -> [kind |-> "NEWLINE", e |-> MatchNEWLINE(text, i)]
    [] MatchSKIP(text, i) > 0    -> [kind |-> "SKIP", e |-> MatchSKIP(text, i)]
    [] MatchCOMMENT(text, i) > 0 -> [kind |-> "COMMENT", e |-> MatchCOMMENT(text, i)]
    [] OTHER                     -> [kind |-> "NOMATCH", e |-> 0]

\* text[i .. e-1] as one string
RECURSIVE Join(_, _, _)
Join(text, i, e) == IF i >= e THEN "" ELSE text[i] \o Join(text, i + 1, e)

\* int(text[i .. e-1])
RECURSIVE DecInt(_, _, _, _)
DecInt(text, i, e, acc) ==
  IF i >= e THEN acc ELSE DecInt(text, i + 1, e, 10 * acc + DigitVal(text[i]))

RECURSIVE Pow10(_)
Pow10(k) == IF k = 0 THEN 1 ELSE 10 * Pow10(k - 1)

\* float(text) if "." in text else int(text), for the NUMBER match text[i .. e-1]
NumberValue(text, i, e) ==
  LET p == RunEnd(text, i, Digits) IN
  IF p = e THEN IntV(DecInt(text, i, e, 0))
  ELSE FloatV(DecInt(text, i, p, 0) * Pow10(e - p - 1) + DecInt(text, p + 1, e, 0),
              Pow10(e - p - 1))

\* the value of k hex digits at text[i ..], -1 when they are not all there
RECURSIVE HexRun(_, _, _, _, _)
HexRun(text, i, e, k, acc) ==
  IF k = 0 THEN acc
  ELSE IF i < e /\ IsHex(text[i]) THEN HexRun(text, i + 1, e, k - 1, 16 * acc + HexVal(text[i]))
  ELSE -1

\* the end of the digits of an octal escape: at most three, starting at i
OctEnd(text, i, e) ==
  LET lim == IF i + 3 < e THEN i + 3 ELSE e
      r == RunEnd(text, i, {"0", "1", "2", "3", "4", "5", "6", "7"})
  IN IF r < lim THEN r ELSE lim

RECURSIVE OctInt(_, _, _, _)
OctInt(text, i, e, acc) ==
  IF i >= e THEN acc ELSE OctInt(text, i + 1, e, 8 * acc + DigitVal(text[i]))

\* bytes(text[i .. e-1], "utf-8").decode("unicode_escape") over ASCII text:
\* [ok, s]; ok is FALSE where Python raises UnicodeDecodeError.
RECURSIVE Decode(_, _, _)
Decode(text, i, e) ==
  IF i >= e THEN [ok |-> TRUE, s |-> ""]
  ELSE IF text[i] # "\\"
       THEN LET r == Decode(text, i + 1, e) IN [ok |-> r.ok, s |-> text[i] \o r.s]
  ELSE IF i + 1 >= e THEN [ok |-> FALSE, s |-> ""]
  ELSE LET c == text[i + 1]
           Simple(ch) == LET r == Decode(text, i + 2, e) IN [ok |-> r.ok, s |-> ch \o r.s]
           Hex(k) == LET v == HexRun(text, i + 2, e, k, 0)
                         r == Decode(text, i + 2 + k, e)
                     IN IF v < 0 \/ v > 1114111 THEN [ok |-> FALSE, s |-> ""]
                        ELSE [ok |-> r.ok, s |-> ChrOf(v) \o r.s]
       IN CASE c \in {"\\", "\"", "chr(39)"} -> Simple(c)
            [] c = "n" -> Simple("\n")
            [] c = "t" -> Simple("\t")
            [] c = "r" -> Simple(ChrOf(13))
            [] c = "a" -> Simple(ChrOf(7))
            [] c = "b" -> Simple(ChrOf(8))
            [] c = "f" -> Simple(ChrOf(12))
            [] c = "v" -> Simple(ChrOf(11))
            [] c \in {"0", "1", "2", "3", "4", "5", "6", "7"} ->
                 LET oe == OctEnd(text, i + 1, e)
                     r == Decode(text, oe, e)
                 IN [ok |-> r.ok, s |-> ChrOf(OctInt(text, i + 1, oe, 0)) \o r.s]
            [] c = "x" -> Hex(2)
            [] c = "u" -> Hex(4)
            [] c = "U" -> Hex(8)
            \* \N{name}: no name of the Unicode database is spelled in the model's alphabets
            [] c = "N" -> [ok |-> FALSE, s |-> ""]
            [] OTHER -> LET r == Decode(text, i + 2, e) IN [ok |-> r.ok, s |-> "\\" \o c \o r.s]

\* The loop of lex over MASTER_RE.finditer(src): [ok, toks, err].  finditer moves one
\* character on where no rule matches.
RECURSIVE LexFrom(_, _, _)
LexFrom(text, i, acc) ==
  IF i > Len(text)
  THEN [ok |-> TRUE, toks |-> Append(acc, Token("EOF", StrV(""), Len(text))), err |-> NoErr]
  ELSE LET m == MasterMatch(text, i) IN
       CASE m.kind = "NOMATCH" -> LexFrom(text, i + 1, acc)
         [] m.kind \in {"SKIP", "COMMENT"} -> LexFrom(text, m.e, acc)
         [] m.kind = "STRING" ->
              LET dec == Decode(text, i + 1, m.e - 1) IN
              IF dec.ok THEN LexFrom(text, m.e, Append(acc, Token("STRING", StrV(dec.s), i - 1)))
              ELSE [ok |-> FALSE, toks |-> <<>>,
                    err |-> Error("UnicodeDecodeError", "unicode_escape")]
         [] m.kind = "NUMBER" ->
              LexFrom(text, m.e, Append(acc, Token("NUMBER", NumberValue(text, i, m.e), i - 1)))
         [] m.kind = "ID" ->
              LET w == Join(text, i, m.e) IN
              LexFrom(text, m.e, Append(acc, Token(IF w \in Keywords THEN w ELSE "ID", StrV(w), i - 1)))
         [] m.kind = "OP" ->
              LexFrom(text, m.e, Append(acc, Token(text[i], StrV(text[i]), i - 1)))
         [] m.kind = "NEWLINE" ->
              LexFrom(text, m.e, Append(acc, Token("NEWLINE", StrV("\n"), i - 1)))

lex(text) == LexFrom(text, 1, <<>>)

(***************************************************************************)
(* Parser                                                                  *)
(***************************************************************************)
NoNode == [kind |-> "none"]

\* str(value) of a token's value, as the parser's error message shows it
RECURSIVE FracText(_, _, _)
FracText(r, d, k) ==
  IF r = 0 \/ k = 0 THEN "" ELSE ToString((10 * r) \div d) \o FracText((10 * r) % d, d, k - 1)

ValueText(v) ==
  CASE v.t = "str" -> v.s
    [] v.t = "int" -> ToString(v.n)
    [] v.t = "float" ->
         (IF v.n < 0 THEN "-" ELSE "") \o ToString(Abs(v.n) \div v.d) \o "."
           \o (IF Abs(v.n) % v.d = 0 THEN "0" ELSE FracText(Abs(v.n) % v.d, v.d, 17))
    [] OTHER -> "None"

POk(node, i) == [ok |-> TRUE, node |-> node, i |-> i, err |-> NoErr]

\* Parser.err: SyntaxError at the position of the token under peek()
PErr(tk, i, msg) ==
  [ok |-> FALSE, node |-> NoNode, i |-> i,
   err |-> Error("SyntaxError", "[parse error @ " \o ToString(tk[i].pos) \o "] " \o msg)]

\* Parser.take(kind) at a token of another kind
Expected(tk, i, kind) ==
  PErr(tk, i, "expected " \o kind \o ", got " \o tk[i].kind \o ":" \o ValueText(tk[i].value))

RECURSIVE parse_add(_, _), AddLoop(_, _, _), parse_mul(_, _), MulLoop(_, _, _)
RECURSIVE parse_unary(_, _), parse_primary(_, _), ArgLoop(_, _, _)

parse_expr(tk, i) == parse_add(tk, i)

\* the while loop of parse_add, with `node` built so far
AddLoop(tk, node, i) ==
  IF tk[i].kind \in {"+", "-"}
  THEN LET Go(rhs) ==
             IF ~rhs.ok THEN rhs
             ELSE AddLoop(tk, [kind |-> "binop", op |-> tk[i].kind, a |-> node, b |-> rhs.node], rhs.i)
       IN Go(parse_mul(tk, i + 1))
  ELSE POk(node, i)

parse_add(tk, i) ==
  LET Go(lhs) == IF ~lhs.ok THEN lhs ELSE AddLoop(tk, lhs.node, lhs.i)
  IN Go(parse_mul(tk, i))

\* MulLoop with the slip of recursing for the right operand (right-associative)
MulLoopRight(tk, node, i) ==
  IF tk[i].kind \in {"*", "/"}
  THEN LET Go(rhs) ==
             IF ~rhs.ok THEN rhs
             ELSE POk([kind |-> "binop", op |-> tk[i].kind, a |-> node, b |-> rhs.node], rhs.i)
       IN Go(parse_mul(tk, i + 1))
  ELSE POk(node, i)

\* the while loop of parse_mul
MulLoop(tk, node, i) ==
  IF tk[i].kind \in {"*", "/"}
  THEN LET Go(rhs) ==
             IF ~rhs.ok THEN rhs
             ELSE MulLoop(tk, [kind |-> "binop", op |-> tk[i].kind, a |-> node, b |-> rhs.node], rhs.i)
       IN Go(parse_unary(tk, i + 1))
  ELSE POk(node, i)

parse_mul(tk, i) ==
  LET Go(lhs) == IF ~lhs.ok THEN lhs ELSE MulLoop(tk, lhs.node, lhs.i)
  IN Go(parse_unary(tk, i))

parse_unary(tk, i) ==
  IF tk[i].kind \in {"+", "-"}
  THEN LET Go(e) ==
             IF ~e.ok THEN e ELSE POk([kind |-> "unary", op |-> tk[i].kind, e |-> e.node], e.i)
       IN Go(parse_unary(tk, i + 1))
  ELSE parse_primary(tk, i)

\* the arguments of a call after the first: while peek is ","; [ok, args, i, err]
ArgLoop(tk, args, i) ==
  IF tk[i].kind = ","
  THEN LET Go(e) ==
             IF ~e.ok THEN [ok |-> FALSE, args |-> <<>>, i |-> e.i, err |-> e.err]
             ELSE ArgLoop(tk, Append(args, e.node), e.i)
       IN Go(parse_expr(tk, i + 1))
  ELSE [ok |-> TRUE, args |-> args, i |-> i, err |-> NoErr]

parse_primary(tk, i) ==
  LET t == tk[i] IN
  CASE t.kind = "NUMBER" -> POk([kind |-> "num", val |-> t.value], i + 1)
    [] t.kind = "STRING" -> POk([kind |-> "str", val |-> t.value], i + 1)
    [] t.kind = "ID" ->
         IF tk[i + 1].kind = "("
         THEN LET First(e) ==
                    IF ~e.ok THEN [ok |-> FALSE, args |-> <<>>, i |-> e.i, err |-> e.err]
                    ELSE ArgLoop(tk, <<e.node>>, e.i)
                  Close(a) ==
                    IF ~a.ok THEN [ok |-> FALSE, node |-> NoNode, i |-> a.i, err |-> a.err]
                    ELSE IF tk[a.i].kind # ")" THEN Expected(tk, a.i, ")")
                    ELSE POk([kind |-> "call", name |-> t.value.s, args |-> a.args], a.i + 1)
              IN Close(IF tk[i + 2].kind # ")"
                       THEN First(parse_expr(tk, i + 2))
                       ELSE [ok |-> TRUE, args |-> <<>>, i |-> i + 2, err |-> NoErr])
         ELSE POk([kind |-> "var", name |-> t.value.s], i + 1)
    [] t.kind = "(" ->
         LET Close(e) ==
               IF ~e.ok THEN e
               ELSE IF tk[e.i].kind # ")" THEN Expected(tk, e.i, ")")
               ELSE POk(e.node, e.i + 1)
         IN Close(parse_expr(tk, i + 1))
    [] OTHER -> PErr(tk, i, "unexpected token in expression")

parse_stmt(tk, i) ==
  LET t == tk[i] IN
  CASE t.kind = "let" ->
         IF tk[i + 1].kind # "ID" THEN Expected(tk, i + 1, "ID")
         ELSE IF tk[i + 2].kind # "=" \/ tk[i + 2].value # StrV("=") THEN Expected(tk, i + 2, "=")
         ELSE LET Go(e) ==
                    IF ~e.ok THEN e
                    ELSE POk([kind |-> "let", name |-> tk[i + 1].value.s, e |-> e.node], e.i)
              IN Go(parse_expr(tk, i + 3))
    [] t.kind = "print" ->
         LET Go(e) == IF ~e.ok THEN e ELSE POk([kind |-> "print", e |-> e.node], e.i)
         IN Go(parse_expr(tk, i + 1))
    [] t.kind = "use" ->
         IF tk[i + 1].kind # "ID" THEN Expected(tk, i + 1, "ID")
         ELSE POk([kind |-> "use", name |-> tk[i + 1].value.s], i + 2)
    [] OTHER ->
         LET Go(e) == IF ~e.ok THEN e ELSE POk([kind |-> "expr", e |-> e.node], e.i)
         IN Go(parse_expr(tk, i))

\* the index of the first token at or after i that is no NEWLINE
RECURSIVE SkipNewlines(_, _)
SkipNewlines(tk, i) == IF tk[i].kind = "NEWLINE" THEN SkipNewlines(tk, i + 1) ELSE i

\* The loop of parse_program: [ok, node, i, err, starts]; starts[k] is self.i when
\* parse_stmt was called for statement k.
RECURSIVE ProgramLoop(_, _, _, _)
ProgramLoop(tk, stmts, starts, i) ==
  IF tk[i].kind = "EOF"
  THEN [ok |-> TRUE, node |-> [kind |-> "block", stmts |-> stmts], i |-> i, err |-> NoErr,
        starts |-> starts]
  ELSE IF tk[i].kind = "NEWLINE" THEN ProgramLoop(tk, stmts, starts, i + 1)
  ELSE LET Go(st) ==
             IF ~st.ok
             THEN [ok |-> FALSE, node |-> NoNode, i |-> st.i, err |-> st.err, starts |-> <<>>]
             ELSE ProgramLoop(tk, Append(stmts, st.node), Append(starts, i), SkipNewlines(tk, st.i))
       IN Go(parse_stmt(tk, i))

parse_program(tk) == ProgramLoop(tk, <<>>, <<>>, 1)

(***************************************************************************)
(* Runtime                                                                 *)
(***************************************************************************)
\* A Python object an extension hands over is [k, v]: k = "value" is the plain
\* (non-callable) value v; the callables are
\*   "type"    lambda x: str(type(x).__name__)     (the built-in of Runtime.__init__)
\*   "const"   lambda: v                           (what register_value builds)
\*   "double"  lambda x: x * 2                     (extension code)
\*   "add"     lambda a, b: a + b                  (extension code)
Obj(k, v) == [k |-> k, v |-> v]

callable(o) == o.k # "value"

EmptyMap == [x \in {} |-> NoneV]

Put(map, key, val) == (key :> val) @@ map

\* Runtime.__init__
Runtime == [vars |-> EmptyMap, funcs |-> Put(EmptyMap, "type", Obj("type", NoneV))]

\* no Runtime object: run_code has not built one
NoRuntime == [vars |-> EmptyMap, funcs |-> EmptyMap]

\* register with the slip of one dict for both kinds of name: the function is bound
\* as a variable too
register_flat(r, name, func) ==
  IF ~callable(func)
  THEN [rt |-> r, err |-> Error("TypeError", "registered object must be callable")]
  ELSE [rt |-> [r EXCEPT !.funcs = Put(r.funcs, name, func),
                         !.vars = Put(r.vars, name, StrV("<function>"))],
        err |-> NoErr]

\* Runtime.register: [rt, err]
register(r, name, func) ==
  IF ~callable(func)
  THEN [rt |-> r, err |-> Error("TypeError", "registered object must be callable")]
  ELSE [rt |-> [r EXCEPT !.funcs = Put(r.funcs, name, func)], err |-> NoErr]

\* register_value with the slip of storing the value itself (funcs[name] = value)
register_value_bare(r, name, value) ==
  [rt |-> [r EXCEPT !.funcs = Put(r.funcs, name, Obj("value", value))], err |-> NoErr]

\* Runtime.register_value: [rt, err]
register_value(r, name, value) ==
  [rt |-> [r EXCEPT !.funcs = Put(r.funcs, name, Obj("const", value))], err |-> NoErr]

IsNum(v) == v.t \in {"int", "float"}

Num(a, num, den) == IF a THEN IntV(num) ELSE FloatV(num, den)

RECURSIVE Repeat(_, _)
Repeat(text, k) == IF k <= 0 THEN "" ELSE text \o Repeat(text, k - 1)

TypeName(v) == IF v.t = "none" THEN "NoneType" ELSE v.t

Unsupported(op, a, b) ==
  Error("TypeError", "unsupported operand type(s) for " \o op \o ": " \o TypeName(a)
                       \o " and " \o TypeName(b))

\* Python's a <op> b on the values of the language: [val, err]
BinOp(op, a, b) ==
  LET ints == a.t = "int" /\ b.t = "int"
      ok(v) == [val |-> v, err |-> NoErr]
      bad == [val |-> NoneV, err |-> Unsupported(op, a, b)]
  IN CASE op = "+" ->
            IF IsNum(a) /\ IsNum(b) THEN ok(Num(ints, a.n * b.d + b.n * a.d, a.d * b.d))
            ELSE IF a.t = "str" /\ b.t = "str" THEN ok(StrV(a.s \o b.s))
            ELSE bad
       [] op = "-" ->
            IF IsNum(a) /\ IsNum(b) THEN ok(Num(ints, a.n * b.d - b.n * a.d, a.d * b.d))
            ELSE bad
       [] op = "*" ->
            IF IsNum(a) /\ IsNum(b) THEN ok(Num(ints, a.n * b.n, a.d * b.d))
            ELSE IF a.t = "str" /\ b.t = "int" THEN ok(StrV(Repeat(a.s, b.n)))
            ELSE IF a.t = "int" /\ b.t = "str" THEN ok(StrV(Repeat(b.s, a.n)))
            ELSE bad
       [] op = "/" ->
            IF IsNum(a) /\ IsNum(b)
            THEN IF b.n = 0 THEN [val |-> NoneV, err |-> Error("ZeroDivisionError", "division by zero")]
                 ELSE ok(FloatV(a.n * b.d, a.d * b.n))
            ELSE bad

\* Python's +v and -v: [val, err]
UnaryOp(op, v) ==
  IF ~IsNum(v)
  THEN [val |-> NoneV, err |-> Error("TypeError", "bad operand type for unary " \o op \o ": " \o TypeName(v))]
  ELSE [val |-> IF op = "+" THEN v ELSE [v EXCEPT !.n = -v.n], err |-> NoErr]

Params(f) == CASE f.k = "type" -> 1 [] f.k = "const" -> 0 [] f.k = "double" -> 1 [] f.k = "add" -> 2

\* func(*args) for a registered callable: [val, err]
Apply(f, args) ==
  IF ~callable(f)
  THEN [val |-> NoneV, err |-> Error("TypeError", TypeName(f.v) \o " object is not callable")]
  ELSE IF Len(args) # Params(f)
  THEN [val |-> NoneV,
        err |-> Error("TypeError", "<lambda>() takes " \o ToString(Params(f))
                                     \o " positional arguments, " \o ToString(Len(args)) \o " given")]
  ELSE CASE f.k = "type" -> [val |-> StrV(TypeName(args[1])), err |-> NoErr]
         [] f.k = "const" -> [val |-> f.v, err |-> NoErr]
         [] f.k = "double" -> BinOp("*", args[1], IntV(2))
         [] f.k = "add" -> BinOp("+", args[1], args[2])

\* call with the slip of letting the TypeError of the capability through as it is
call_unwrapped(r, name, args) ==
  IF name \notin DOMAIN r.funcs
  THEN [val |-> NoneV, err |-> Error("NameError", "function not found: " \o name)]
  ELSE Apply(r.funcs[name], args)

\* Runtime.call: [val, err]
call(r, name, args) ==
  IF name \notin DOMAIN r.funcs
  THEN [val |-> NoneV, err |-> Error("NameError", "function not found: " \o name)]
  ELSE LET Wrap(res) ==
             IF res.err.cls = "TypeError"
             THEN [val |-> NoneV,
                   err |-> Error("TypeError", "bad args for " \o name \o ": " \o res.err.msg)]
             ELSE res
       IN Wrap(Apply(r.funcs[name], args))

(***************************************************************************)
(* Extensions                                                              *)
(***************************************************************************)
\* What main.py of an extension defines at module level:
\*   load     "absent", "value" (a name load that is not callable) or "callable"
\*   regs     the calls load(runtime) makes, in order: [how, name, obj]
\*   exports  "absent", "list" (EXPORTS that is no dict) or "dict"
\*   table    the items of EXPORTS, in order: [name, obj]
Reg(how, name, obj) == [how |-> how, name |-> name, obj |-> obj]

Item(name, obj) == [name |-> name, obj |-> obj]

Unit(load, regs, exports, table) ==
  [load |-> load, regs |-> regs, exports |-> exports, table |-> table]

PiItem == Item("pi", Obj("value", IntV(3)))

\* EXT_DIR: the extensions installed, by directory name (any other name: no main.py)
ExtDir ==
  [ea  |-> Unit("callable", <<Reg("register", "double", Obj("double", NoneV))>>, "absent", <<>>),
   eb  |-> Unit("absent", <<>>, "dict",
                <<Item("add", Obj("add", NoneV)), PiItem, Item("type", Obj("value", IntV(7)))>>),
   eab |-> Unit("callable", <<Reg("register", "double", Obj("double", NoneV))>>, "dict", <<PiItem>>),
   el  |-> Unit("value", <<>>, "dict", <<PiItem>>),
   ed  |-> Unit("absent", <<>>, "list", <<PiItem>>),
   en  |-> Unit("absent", <<>>, "absent", <<>>),
   et  |-> Unit("callable", <<Reg("register_value", "k", Obj("value", IntV(1))),
                              Reg("register", "pi", Obj("value", IntV(3)))>>, "absent", <<>>)]

\* mod.load(self.rt): the registrations of the unit's load, until one raises
RECURSIVE RunLoad(_, _, _)
RunLoad(r, regs, i) ==
  IF i > Len(regs) THEN [rt |-> r, err |-> NoErr]
  ELSE LET res == IF regs[i].how = "register" THEN register(r, regs[i].name, regs[i].obj)
                  ELSE register_value(r, regs[i].name, regs[i].obj.v)
       IN IF res.err # NoErr THEN res ELSE RunLoad(res.rt, regs, i + 1)

\* for k, v in mod.EXPORTS.items(): register or register_value
RECURSIVE RegisterExports(_, _, _)
RegisterExports(r, table, i) ==
  IF i > Len(table) THEN [rt |-> r, err |-> NoErr]
  ELSE LET res == IF callable(table[i].obj) THEN register(r, table[i].name, table[i].obj)
                  ELSE register_value(r, table[i].name, table[i].obj.v)
       IN IF res.err # NoErr THEN res ELSE RegisterExports(res.rt, table, i + 1)

\* load_extension with the slip of `if` for `elif`: EXPORTS registered after load ran
load_extension_both(r, modname) ==
  IF modname \notin DOMAIN ExtDir
  THEN [rt |-> r, err |-> Error("FileNotFoundError", "extension " \o modname \o " not found")]
  ELSE LET mod == ExtDir[modname]
           a == IF mod.load = "callable" THEN RunLoad(r, mod.regs, 1) ELSE [rt |-> r, err |-> NoErr]
       IN IF a.err # NoErr THEN a
          ELSE IF mod.exports = "dict" THEN RegisterExports(a.rt, mod.table, 1)
          ELSE IF mod.load = "callable" THEN a
          ELSE [rt |-> r, err |-> Error("ImportError", "extension " \o modname
                                          \o " missing load(runtime) or EXPORTS dict")]

\* Interpreter.load_extension: [rt, err]
load_extension(r, modname) ==
  IF modname \notin DOMAIN ExtDir
  THEN [rt |-> r, err |-> Error("FileNotFoundError", "extension " \o modname \o " not found")]
  ELSE LET mod == ExtDir[modname] IN
       IF mod.load = "callable" THEN RunLoad(r, mod.regs, 1)
       ELSE IF mod.exports = "dict" THEN RegisterExports(r, mod.table, 1)
       ELSE [rt |-> r, err |-> Error("ImportError", "extension " \o modname
                                       \o " missing load(runtime) or EXPORTS dict")]

(***************************************************************************)
(* Interpreter                                                             *)
(***************************************************************************)
\* The interpreter's state is [rt, out]: its Runtime and what the sink received.
\* eval returns [rt, out, val, err]; err # NoErr is the exception that left eval.
Res(r, out, val, e) == [rt |-> r, out |-> out, val |-> val, err |-> e]

\* SetVar with the slip of keeping the first binding of a name (setdefault)
SetVarKeepFirst(r, name, val) ==
  IF name \in DOMAIN r.vars THEN r ELSE [r EXCEPT !.vars = Put(r.vars, name, val)]

\* self.rt.vars[name] = val
SetVar(r, name, val) == [r EXCEPT !.vars = Put(r.vars, name, val)]

\* LookupVar with the slip of reading the map with a default (vars.get(name))
LookupVarDefault(r, name) ==
  [val |-> IF name \in DOMAIN r.vars THEN r.vars[name] ELSE NoneV, err |-> NoErr]

\* the "var" case of eval: [val, err]
LookupVar(r, name) ==
  IF name \in DOMAIN r.vars THEN [val |-> r.vars[name], err |-> NoErr]
  ELSE [val |-> NoneV, err |-> Error("NameError", "undefined variable: " \o name)]

RECURSIVE eval(_, _), BlockLoop(_, _, _, _), ArgsLoop(_, _, _, _), BlockLoopGoOn(_, _, _, _)

\* BlockLoop with the slip of going on after a statement failed (the error of the
\* last failing statement is raised at the end)
BlockLoopGoOn(stmts, i, st, lastv) ==
  IF i > Len(stmts) THEN Res(st.rt, st.out, lastv, NoErr)
  ELSE LET r == eval(stmts[i], st)
           rest == BlockLoopGoOn(stmts, i + 1, [rt |-> r.rt, out |-> r.out], r.val)
       IN IF r.err # NoErr /\ rest.err = NoErr THEN Res(rest.rt, rest.out, NoneV, r.err)
          ELSE rest

\* for s in node[1]: last = self.eval(s)
BlockLoop(stmts, i, st, lastv) ==
  IF i > Len(stmts) THEN Res(st.rt, st.out, lastv, NoErr)
  ELSE LET r == eval(stmts[i], st) IN
       IF r.err # NoErr THEN r
       ELSE BlockLoop(stmts, i + 1, [rt |-> r.rt, out |-> r.out], r.val)

\* argv = [self.eval(a) for a in args]: [rt, out, val: the list, err]
ArgsLoop(args, i, st, argv) ==
  IF i > Len(args) THEN Res(st.rt, st.out, argv, NoErr)
  ELSE LET r == eval(args[i], st) IN
       IF r.err # NoErr THEN Res(r.rt, r.out, <<>>, r.err)
       ELSE ArgsLoop(args, i + 1, [rt |-> r.rt, out |-> r.out], Append(argv, r.val))

eval(node, st) ==
  CASE node.kind = "block" -> BlockLoop(node.stmts, 1, st, NoneV)
    [] node.kind = "let" ->
         LET r == eval(node.e, st) IN
         IF r.err # NoErr THEN r
         ELSE Res(SetVar(r.rt, node.name, r.val), r.out, r.val, NoErr)
    [] node.kind = "print" ->
         LET r == eval(node.e, st) IN
         IF r.err # NoErr THEN r ELSE Res(r.rt, Append(r.out, r.val), NoneV, NoErr)
    [] node.kind = "use" ->
         LET l == load_extension(st.rt, node.name) IN Res(l.rt, st.out, NoneV, l.err)
    [] node.kind = "expr" -> eval(node.e, st)
    [] node.kind \in {"num", "str"} -> Res(st.rt, st.out, node.val, NoErr)
    [] node.kind = "var" ->
         LET v == LookupVar(st.rt, node.name) IN Res(st.rt, st.out, v.val, v.err)
    [] node.kind = "unary" ->
         LET r == eval(node.e, st) IN
         IF r.err # NoErr THEN r
         ELSE LET u == UnaryOp(node.op, r.val) IN Res(r.rt, r.out, u.val, u.err)
    [] node.kind = "binop" ->
         LET ra == eval(node.a, st) IN
         IF ra.err # NoErr THEN ra
         ELSE LET rb == eval(node.b, [rt |-> ra.rt, out |-> ra.out]) IN
              IF rb.err # NoErr THEN rb
              ELSE LET b == BinOp(node.op, ra.val, rb.val) IN Res(rb.rt, rb.out, b.val, b.err)
    [] node.kind = "call" ->
         LET ra == ArgsLoop(node.args, 1, st, <<>>) IN
         IF ra.err # NoErr THEN Res(ra.rt, ra.out, NoneV, ra.err)
         ELSE LET c == call(ra.rt, node.name, ra.val) IN Res(ra.rt, ra.out, c.val, c.err)
    [] OTHER -> Res(st.rt, st.out, NoneV, Error("RuntimeError", "unknown node: " \o node.kind))

(***************************************************************************)
(* Inputs: the lines typed at the REPL and the programs given to run_code  *)
(***************************************************************************)
\* let x = 10
LetX10 == <<"l", "e", "t", " ", "x", " ", "=", " ", "1", "0">>
\* let x = 20
LetX20 == <<"l", "e", "t", " ", "x", " ", "=", " ", "2", "0">>
\* print x
PrintX == <<"p", "r", "i", "n", "t", " ", "x">>
\* print y
PrintY == <<"p", "r", "i", "n", "t", " ", "y">>
\* let x = y
LetXY == <<"l", "e", "t", " ", "x", " ", "=", " ", "y">>
\* print 1/0 + y
PrintDivY == <<"p", "r", "i", "n", "t", " ", "1", "/", "0", " ", "+", " ", "y">>
\* use ea
UseEa == <<"u", "s", "e", " ", "e", "a">>
\* use eb
UseEb == <<"u", "s", "e", " ", "e", "b">>
\* use eab
UseEab == <<"u", "s", "e", " ", "e", "a", "b">>
\* use en
UseEn == <<"u", "s", "e", " ", "e", "n">>
\* use ex
UseEx == <<"u", "s", "e", " ", "e", "x">>
\* use el
UseEl == <<"u", "s", "e", " ", "e", "l">>
\* use ed
UseEd == <<"u", "s", "e", " ", "e", "d">>
\* use et
UseEt == <<"u", "s", "e", " ", "e", "t">>
\* print add(1, 2)
PrintAdd == <<"p", "r", "i", "n", "t", " ", "a", "d", "d", "(", "1", ",", " ", "2", ")">>
\* print pi()
PrintPi == <<"p", "r", "i", "n", "t", " ", "p", "i", "(", ")">>
\* print double(2)
PrintDouble == <<"p", "r", "i", "n", "t", " ", "d", "o", "u", "b", "l", "e", "(", "2", ")">>
\* print type(1)
PrintType1 == <<"p", "r", "i", "n", "t", " ", "t", "y", "p", "e", "(", "1", ")">>
\* print type()
PrintType0 == <<"p", "r", "i", "n", "t", " ", "t", "y", "p", "e", "(", ")">>
\* print nofn(1)
PrintNofn == <<"p", "r", "i", "n", "t", " ", "n", "o", "f", "n", "(", "1", ")">>
\* print add(1, "a")
PrintAddBad == <<"p", "r", "i", "n", "t", " ", "a", "d", "d", "(", "1", ",", " ", "\"", "a", "\"", ")">>

\* let add = 1
LetAdd == <<"l", "e", "t", " ", "a", "d", "d", " ", "=", " ", "1">>
\* let x = 1 print y
LetPrint == <<"l", "e", "t", " ", "x", " ", "=", " ", "1", " ", "p", "r", "i", "n", "t", " ", "y">>
\* (two spaces)
Blank == <<" ", " ">>
\* let = 1
LetBad == <<"l", "e", "t", " ", "=", " ", "1">>
\* let type = 1
LetType == <<"l", "e", "t", " ", "t", "y", "p", "e", " ", "=", " ", "1">>
\* print double
PrintDoubleVar == <<"p", "r", "i", "n", "t", " ", "d", "o", "u", "b", "l", "e">>

Lines ==
  {LetX10, LetX20, PrintX, PrintY, LetXY, PrintDivY,
   UseEa, UseEb, UseEab, UseEn, UseEx, UseEl,
   UseEd, UseEt, PrintAdd, PrintPi, PrintDouble, PrintType1,
   PrintType0, PrintNofn, LetAdd, LetPrint, Blank, LetBad, PrintAddBad,
   LetType, PrintDoubleVar}

\* let x = 10 | print x | let x = 20 | print x
ProgOverwrite ==
  <<"l", "e", "t", " ", "x", " ", "=", " ", "1", "0", "\n", "p", "r", "i", "n", "t", " ", "x", "\n", "l", "e", "t", " ", "x", " ", "=", " ", "2", "0", "\n", "p", "r", "i", "n", "t", " ", "x">>

\* use eb | print add(1, 2) | print y | print 2
ProgFailThird ==
  <<"u", "s", "e", " ", "e", "b", "\n", "p", "r", "i", "n", "t", " ", "a", "d", "d", "(", "1", ",", " ", "2", ")", "\n", "p", "r", "i", "n", "t", " ", "y", "\n", "p", "r", "i", "n", "t", " ", "2">>

\* let x = 1 | let x = y | print x
ProgLetFail ==
  <<"l", "e", "t", " ", "x", " ", "=", " ", "1", "\n", "l", "e", "t", " ", "x", " ", "=", " ", "y", "\n", "p", "r", "i", "n", "t", " ", "x">>

\* print 1 print 2
ProgOneLine ==
  <<"p", "r", "i", "n", "t", " ", "1", " ", "p", "r", "i", "n", "t", " ", "2">>

\* print 1; print 2
ProgSemicolon ==
  <<"p", "r", "i", "n", "t", " ", "1", ";", " ", "p", "r", "i", "n", "t", " ", "2">>

\*  |  | let x = 1 # one |  | x | 
ProgBlankLines ==
  <<"\n", "\n", "l", "e", "t", " ", "x", " ", "=", " ", "1", " ", "#", " ", "o", "n", "e", "\n", "\n", "x", "\n">>

\* (empty)
ProgEmpty ==
  <<>>

\* print "\x"
ProgBadString ==
  <<"p", "r", "i", "n", "t", " ", "\"", "\\", "x", "\"">>

Programs ==
  Lines \cup {ProgOverwrite, ProgFailThird, ProgLetFail, ProgOneLine,
             ProgSemicolon, ProgBlankLines, ProgEmpty, ProgBadString}

(***************************************************************************)
(* Drivers                                                                 *)
(***************************************************************************)
\* tokens = lex(text); ast = Parser(tokens).parse_program(): [ok, node, err]
Front(text) ==
  LET Parsed(p) == [ok |-> p.ok, node |-> p.node, err |-> p.err]
      Lexed(l) == IF ~l.ok THEN [ok |-> FALSE, node |-> NoNode, err |-> l.err]
                  ELSE Parsed(parse_program(l.toks))
  IN Lexed(lex(text))

\* Front of every input of the model, computed once
FrontOf == [text \in Programs \cup {Append(line, "\n") : line \in Lines} |-> Front(text)]

\* run_code with the slip of one module-level Runtime shared by all calls
run_code_shared(text) ==
  LET Run(f) ==
        IF ~f.ok THEN Res(NoRuntime, <<>>, NoneV, f.err)
        ELSE eval(f.node, [rt |-> IF runRt = NoRuntime THEN Runtime ELSE runRt, out |-> <<>>])
  IN Run(FrontOf[text])

\* What run_code(text) comes to: [rt, out, val, err].  The Runtime is built
\* after lexing and parsing, so a text that fails there leaves none.
run_code(text) ==
  LET Run(f) ==
        IF ~f.ok THEN Res(NoRuntime, <<>>, NoneV, f.err)
        ELSE eval(f.node, [rt |-> Runtime, out |-> <<>>])
  IN Run(FrontOf[text])

\* line.strip() is empty
IsBlank(line) == \A i \in 1..Len(line) : line[i] \in {" ", "\t", "\n"}

\* One turn of the loop of repl() on a line that is not blank, from the state
\* st = [rt, out]: lex(line + "\n"), parse, eval; except Exception: print the error.
repl_line(line, st) ==
  LET Run(f) == IF ~f.ok THEN Res(st.rt, st.out, NoneV, f.err) ELSE eval(f.node, st)
  IN Run(FrontOf[Append(line, "\n")])

MaxInputs == 4

Init ==
  /\ src = <<>> /\ lx = [ok |-> TRUE, toks |-> <<>>, err |-> NoErr]
  /\ pres = POk(NoNode, 1) /\ phase = "src"
  /\ rt = NoRuntime /\ replOut = <<>> /\ replPc = "loop"
  /\ runRt = NoRuntime /\ runOut = <<>> /\ ret = NoneV
  /\ err = NoErr /\ last = <<>> /\ entry = "none" /\ n = 0

\* __main__ with a file argument, or the studio's Run: run_code(p)
RunCode(p) ==
  /\ entry \in {"none", "run_code"}
  /\ n < MaxInputs
  /\ LET Return(r) ==
           /\ runRt' = r.rt
           /\ runOut' = r.out
           /\ ret' = r.val
           /\ err' = r.err
     IN Return(run_code(p))
  /\ last' = p
  /\ entry' = "run_code"
  /\ n' = n + 1
  /\ UNCHANGED <<src, lx, pres, phase, rt, replOut, replPc>>

\* __main__ without arguments: repl() builds its Runtime and Interpreter
ReplStart ==
  /\ entry = "none"
  /\ entry' = "repl"
  /\ rt' = Runtime
  /\ UNCHANGED <<src, lx, pres, phase, replOut, replPc, runRt, runOut, ret, err, last, n>>

\* one line read by input() in repl()
ReplLine(line) ==
  /\ entry = "repl"
  /\ replPc = "loop"
  /\ n < MaxInputs
  /\ IF IsBlank(line)
     THEN UNCHANGED <<rt, replOut>> /\ err' = NoErr
     ELSE LET Done(r) ==
                /\ rt' = r.rt
                /\ replOut' = r.out
                /\ err' = r.err
          IN Done(repl_line(line, [rt |-> rt, out |-> replOut]))
  /\ last' = line
  /\ n' = n + 1
  /\ UNCHANGED <<src, lx, pres, phase, replPc, runRt, runOut, ret, entry>>

\* EOFError or KeyboardInterrupt at input(): "bye", break
ReplEnd ==
  /\ entry = "repl"
  /\ replPc = "loop"
  /\ replPc' = "done"
  /\ UNCHANGED <<src, lx, pres, phase, rt, replOut, runRt, runOut, ret, err, last, entry, n>>

Next ==
  \/ \E p \in Programs : RunCode(p)
  \/ ReplStart
  \/ \E line \in Lines : ReplLine(line)
  \/ ReplEnd

Spec == Init /\ [][Next]_vars

(***************************************************************************)
(* The lexer and the parser on their own: Parser(lex(src)) on every short  *)
(* text over two small alphabets                                           *)
(***************************************************************************)
MaxExprLen == 5

MaxProgLen == 4

ExprChars == {"2", "+", "-", "*", "/", "(", ")"}

ExprSrcs == UNION {[1..k -> ExprChars] : k \in 1..MaxExprLen}

ProgChunks == {<<"p", "r", "i", "n", "t", " ">>, <<"1">>, <<";">>, <<"\n">>, <<" ">>, <<"\"">>}

RECURSIVE Flatten(_)
Flatten(chunks) == IF chunks = <<>> THEN <<>> ELSE Head(chunks) \o Flatten(Tail(chunks))

ProgSrcs == {Flatten(cs) : cs \in UNION {[1..k -> ProgChunks] : k \in 1..MaxProgLen}}

InitParse ==
  /\ src \in ExprSrcs \cup ProgSrcs
  /\ lx = [ok |-> TRUE, toks |-> <<>>, err |-> NoErr]
  /\ pres = POk(NoNode, 1) /\ phase = "src"
  /\ rt = NoRuntime /\ replOut = <<>> /\ replPc = "loop"
  /\ runRt = NoRuntime /\ runOut = <<>> /\ ret = NoneV
  /\ err = NoErr /\ last = <<>> /\ entry = "none" /\ n = 0

Drivers == <<rt, replOut, replPc, runRt, runOut, ret, err, last, entry, n>>

\* tokens = lex(src)
LexAct ==
  /\ phase = "src"
  /\ lx' = lex(src)
  /\ phase' = "lexed"
  /\ UNCHANGED <<src, pres, Drivers>>

\* Parser(tokens).parse_expr()
ParseExprAct ==
  /\ phase = "lexed" /\ lx.ok
  /\ pres' = parse_expr(lx.toks, 1)
  /\ phase' = "expr"
  /\ UNCHANGED <<src, lx, Drivers>>

\* Parser(tokens).parse_program()
ParseProgramAct ==
  /\ phase = "lexed" /\ lx.ok
  /\ pres' = parse_program(lx.toks)
  /\ phase' = "prog"
  /\ UNCHANGED <<src, lx, Drivers>>

NextParse == LexAct \/ ParseExprAct \/ ParseProgramAct

SpecParse == InitParse /\ [][NextParse]_vars


(***************************************************************************)
(* Properties                                                              *)
(***************************************************************************)
\* the statements of a REPL line that lexes and parses (<<>> otherwise)
LineStmts(line) ==
  LET f == FrontOf[Append(line, "\n")] IN IF f.ok THEN f.node.stmts ELSE <<>>

\* the statements of a program that lexes and parses (<<>> otherwise)
ProgStmts(text) == LET f == FrontOf[text] IN IF f.ok THEN f.node.stmts ELSE <<>>

\* a step of the REPL that handles a line
ReplStep == entry = "repl" /\ n' = n + 1

\* the variable names an expression refers to
RECURSIVE VarRefs(_)
VarRefs(node) ==
  CASE node.kind = "var" -> {node.name}
    [] node.kind = "unary" -> VarRefs(node.e)
    [] node.kind = "binop" -> VarRefs(node.a) \cup VarRefs(node.b)
    [] node.kind = "call" -> UNION {VarRefs(node.args[i]) : i \in 1..Len(node.args)}
    [] OTHER -> {}

\* an expression and all its sub-expressions
RECURSIVE SubExprs(_)
SubExprs(node) ==
  {node} \cup
  CASE node.kind = "unary" -> SubExprs(node.e)
    [] node.kind = "binop" -> SubExprs(node.a) \cup SubExprs(node.b)
    [] node.kind = "call" -> UNION {SubExprs(node.args[i]) : i \in 1..Len(node.args)}
    [] OTHER -> {}

\* the names a line or program assigns with let
LetNames(stmts) == {stmts[i].name : i \in {j \in 1..Len(stmts) : stmts[j].kind = "let"}}

IsLetLiteral(line) ==
  /\ Len(LineStmts(line)) = 1
  /\ LineStmts(line)[1].kind = "let"
  /\ LineStmts(line)[1].e.kind = "num"

IsPrintVar(line) ==
  /\ Len(LineStmts(line)) = 1
  /\ LineStmts(line)[1].kind = "print"
  /\ LineStmts(line)[1].e.kind = "var"

\* C1, at the REPL: a line `let v = <number>` binds v to that number, replacing the
\* binding v had and no other; a line that holds no let of v leaves v as it is; a
\* line `print v` with v bound sends exactly the bound value to the sink.
C1_ReplStep ==
  ReplStep =>
    /\ IsLetLiteral(last') =>
         LET st == LineStmts(last')[1] IN
           /\ err' = NoErr /\ replOut' = replOut /\ rt'.funcs = rt.funcs
           /\ DOMAIN rt'.vars = DOMAIN rt.vars \cup {st.name}
           /\ \A v \in DOMAIN rt'.vars :
                rt'.vars[v] = IF v = st.name THEN st.e.val ELSE rt.vars[v]
    /\ \A v \in DOMAIN rt.vars \ LetNames(LineStmts(last')) :
         v \in DOMAIN rt'.vars /\ rt'.vars[v] = rt.vars[v]
    /\ (IsPrintVar(last') /\ LineStmts(last')[1].e.name \in DOMAIN rt.vars) =>
         /\ err' = NoErr /\ rt' = rt
         /\ replOut' = Append(replOut, rt.vars[LineStmts(last')[1].e.name])

\* C1, run_code: `let x = 10; print x; let x = 20; print x`, a statement a line,
\* sends 10 and then 20 to the sink and ends with the single binding x = 20.
C1_Program ==
  (entry = "run_code" /\ last = ProgOverwrite) =>
    /\ err = NoErr
    /\ runOut = <<IntV(10), IntV(20)>>
    /\ runRt.vars = Put(EmptyMap, "x", IntV(20))

\* C1: print x outputs the value of the most recent let x executed before it
\* (overwrite, not shadow).
C1_PrintShowsLastLet == [][C1_ReplStep]_vars /\ []C1_Program

\* C1 witness: the REPL after let x = 10, print x, let x = 20, print x
C1_Witness ==
  /\ entry = "repl" /\ last = PrintX /\ err = NoErr
  /\ replOut = <<IntV(10), IntV(20)>>
  /\ rt.vars = Put(EmptyMap, "x", IntV(20))

\* a line of one let, print or expression statement: its expression (NoNode otherwise)
SoleExpr(line) ==
  IF Len(LineStmts(line)) = 1 /\ LineStmts(line)[1].kind \in {"let", "print", "expr"}
  THEN LineStmts(line)[1].e ELSE NoNode

RefsUnbound(e, r) == VarRefs(e) \ DOMAIN r.vars # {}

\* a sub-expression of e that refers to no unbound variable and fails by itself
ClosedFailure(e, r) ==
  \E sub \in SubExprs(e) :
    /\ VarRefs(sub) \subseteq DOMAIN r.vars
    /\ eval(sub, [rt |-> r, out |-> <<>>]).err # NoErr

UsedModule(line) ==
  IF Len(LineStmts(line)) = 1 /\ LineStmts(line)[1].kind = "use"
  THEN LineStmts(line)[1].name ELSE ""

RegNames(regs) == {regs[i].name : i \in 1..Len(regs)}

\* C4: `use m` at the REPL ends in exactly one of four ways.  No main.py:
\* FileNotFoundError, nothing changed.  A callable load: load(runtime) ran (what it
\* registers is registered, up to the first call of it that raises) and no entry of
\* EXPORTS was registered.  No callable load and a dict EXPORTS: its entries are
\* registered.  Neither: ImportError, nothing changed.  vars is never touched.
C4_UseStep ==
  (ReplStep /\ UsedModule(last') # "") =>
    LET m == UsedModule(last') IN
      /\ rt'.vars = rt.vars /\ replOut' = replOut
      /\ IF m \notin DOMAIN ExtDir
         THEN err'.cls = "FileNotFoundError" /\ rt' = rt
         ELSE LET mod == ExtDir[m]
                  items == {mod.table[i] : i \in 1..Len(mod.table)}
              IN CASE mod.load = "callable" ->
                        /\ err'.cls \in {"", "TypeError"}
                        /\ err' = NoErr => RegNames(mod.regs) \subseteq DOMAIN rt'.funcs
                        /\ DOMAIN rt'.funcs \subseteq DOMAIN rt.funcs \cup RegNames(mod.regs)
                        /\ \A it \in items : it.name \notin RegNames(mod.regs) =>
                             /\ it.name \in DOMAIN rt'.funcs <=> it.name \in DOMAIN rt.funcs
                             /\ it.name \in DOMAIN rt.funcs => rt'.funcs[it.name] = rt.funcs[it.name]
                   [] mod.load # "callable" /\ mod.exports = "dict" ->
                        /\ err' = NoErr
                        /\ DOMAIN rt'.funcs = DOMAIN rt.funcs \cup {it.name : it \in items}
                   [] OTHER -> err'.cls = "ImportError" /\ rt' = rt

C4_LoadOutcome == [][C4_UseStep]_vars

\* C4 witness: use eab (load and EXPORTS) registered double and not pi
C4_Witness ==
  /\ entry = "repl" /\ last = UseEab /\ err = NoErr
  /\ "double" \in DOMAIN rt.funcs /\ "pi" \notin DOMAIN rt.funcs

ShapeB(m) == m \in DOMAIN ExtDir /\ ExtDir[m].load # "callable" /\ ExtDir[m].exports = "dict"

\* a line `print f(<literals>)`: the call node (NoNode otherwise)
SoleCall(line) ==
  IF /\ Len(LineStmts(line)) = 1
     /\ LineStmts(line)[1].kind = "print"
     /\ LineStmts(line)[1].e.kind = "call"
     /\ \A i \in 1..Len(LineStmts(line)[1].e.args) :
          LineStmts(line)[1].e.args[i].kind \in {"num", "str"}
  THEN LineStmts(line)[1].e ELSE NoNode

\* C5: after `use` of an extension with shape B only, every name of EXPORTS is in
\* funcs: a callable as itself, a plain value as the zero-argument function that
\* returns it, whatever the name held before; and a later line that calls add(1, 2)
\* or pi() while the export is in funcs prints 3.
C5_Step ==
  ReplStep =>
    /\ ShapeB(UsedModule(last')) =>
         /\ err' = NoErr
         /\ \A i \in 1..Len(ExtDir[UsedModule(last')].table) :
              LET it == ExtDir[UsedModule(last')].table[i] IN
                /\ it.name \in DOMAIN rt'.funcs
                /\ rt'.funcs[it.name] = IF callable(it.obj) THEN it.obj ELSE Obj("const", it.obj.v)
    /\ (last' = PrintAdd /\ "add" \in DOMAIN rt.funcs /\ rt.funcs["add"] = Obj("add", NoneV)) =>
         err' = NoErr /\ replOut' = Append(replOut, IntV(3))
    /\ (last' = PrintPi /\ "pi" \in DOMAIN rt.funcs /\ rt.funcs["pi"] = Obj("const", IntV(3))) =>
         err' = NoErr /\ replOut' = Append(replOut, IntV(3))
    /\ (last' = PrintType0 /\ rt.funcs["type"] = Obj("const", IntV(7))) =>
         err' = NoErr /\ replOut' = Append(replOut, IntV(7))

C5_ExportsRegistered == [][C5_Step]_vars

\* C5 witness: use eb, then add(1, 2), pi() and type() printed 3, 3 and 7
C5_Witness ==
  /\ entry = "repl" /\ last = PrintType0 /\ err = NoErr
  /\ replOut = <<IntV(3), IntV(3), IntV(7)>>

\* the state a block is in after its first k statements, from st: [rt, out, val, err]
Prefix(stmts, k, st) == BlockLoop(SubSeq(stmts, 1, k), 1, st, NoneV)

\* C7: when statement k of a block fails, the state eval leaves is the state the
\* statements before k made: their bindings and what they printed, nothing of the
\* statements after k; a failing `use` may add functions of its own, the names
\* registered before stay registered.
FailedAt(stmts, st, rtEnd, outEnd, e) ==
  \E k \in 1..Len(stmts) :
    LET pre == Prefix(stmts, k - 1, st) IN
      /\ pre.err = NoErr
      /\ eval(stmts[k], [rt |-> pre.rt, out |-> pre.out]).err = e
      /\ outEnd = pre.out
      /\ rtEnd.vars = pre.rt.vars
      /\ DOMAIN pre.rt.funcs \subseteq DOMAIN rtEnd.funcs
      /\ stmts[k].kind # "use" => rtEnd = pre.rt

C7_RunCode ==
  (entry = "run_code" /\ err # NoErr /\ FrontOf[last].ok) =>
    FailedAt(ProgStmts(last), [rt |-> Runtime, out |-> <<>>], runRt, runOut, err)

C7_ReplStep ==
  (ReplStep /\ err' # NoErr /\ FrontOf[Append(last', "\n")].ok) =>
    /\ FailedAt(LineStmts(last'), [rt |-> rt, out |-> replOut], rt', replOut', err')
    /\ DOMAIN rt.vars \subseteq DOMAIN rt'.vars
    /\ DOMAIN rt.funcs \subseteq DOMAIN rt'.funcs
    /\ Len(LineStmts(last')) = 1 => rt'.vars = rt.vars

C7_FailureKeepsEarlierEffects == []C7_RunCode /\ [][C7_ReplStep]_vars

\* C7 witness: use eb | print add(1, 2) | print y | print 2 failed at its third
\* statement with add registered and 3 printed
C7_Witness ==
  /\ entry = "run_code" /\ last = ProgFailThird /\ err.cls = "NameError"
  /\ runOut = <<IntV(3)>> /\ "add" \in DOMAIN runRt.funcs

\* the names the use statements of a block can register
UseNames(stmts) ==
  UNION {LET m == stmts[i].name IN
           IF m \in DOMAIN ExtDir
           THEN RegNames(ExtDir[m].regs) \cup RegNames(ExtDir[m].table) ELSE {}
         : i \in {j \in 1..Len(stmts) : stmts[j].kind = "use"}}

\* C8, run_code: whatever was run before, the Runtime of a call holds only what
\* its own source bound or registered, next to the built-in type.
C8_Fresh ==
  entry = "run_code" =>
    /\ DOMAIN runRt.vars \subseteq LetNames(ProgStmts(last))
    /\ DOMAIN runRt.funcs \subseteq {"type"} \cup UseNames(ProgStmts(last))
    /\ ("type" \in DOMAIN runRt.funcs /\ "type" \notin UseNames(ProgStmts(last))) =>
         runRt.funcs["type"] = Obj("type", NoneV)

\* C8, one input after another: after `let x = 10`, `print x` fails with NameError
\* in a new run_code call and prints 10 at the REPL; after `use eb`, `print
\* add(1, 2)` fails with NameError in a new run_code call and prints 3 at the REPL.
C8_Step ==
  (n' = n + 1 /\ n > 0 /\ err = NoErr) =>
    /\ (last = LetX10 /\ last' = PrintX) =>
         IF entry' = "run_code"
         THEN err'.cls = "NameError" /\ runOut' = <<>> /\ runRt' = Runtime
         ELSE err' = NoErr /\ replOut' = Append(replOut, IntV(10))
    /\ (last = UseEb /\ last' = PrintAdd) =>
         IF entry' = "run_code"
         THEN err'.cls = "NameError" /\ runOut' = <<>> /\ runRt' = Runtime
         ELSE err' = NoErr /\ replOut' = Append(replOut, IntV(3))

C8_RunCodeFreshReplKeeps == []C8_Fresh /\ [][C8_Step]_vars

\* C8 witness: a later run_code call, of `print x`, that found x unbound
C8_Witness ==
  /\ entry = "run_code" /\ n >= 2 /\ last = PrintX
  /\ err.cls = "NameError" /\ runRt = Runtime

\* C10: a line `print f(<literals>)` at the REPL.  f not in funcs: NameError, bound
\* as a variable or not.  f in funcs and the capability raising TypeError on these
\* arguments: TypeError "bad args for f: " followed by the message of the
\* capability.  Either way vars, funcs and the sink stay as they were.
C10_Step ==
  (ReplStep /\ SoleCall(last') # NoNode) =>
    LET c == SoleCall(last')
        argv == [i \in 1..Len(c.args) |-> c.args[i].val]
    IN IF c.name \notin DOMAIN rt.funcs
       THEN /\ err' = Error("NameError", "function not found: " \o c.name)
            /\ rt' = rt /\ replOut' = replOut
       ELSE LET own == Apply(rt.funcs[c.name], argv).err IN
            own.cls = "TypeError" =>
              /\ err' = Error("TypeError", "bad args for " \o c.name \o ": " \o own.msg)
              /\ rt' = rt /\ replOut' = replOut

C10_CallErrors == [][C10_Step]_vars

\* C10 witness: add(1, 2) with add bound as a variable and not registered
C10_Witness ==
  /\ entry = "repl" /\ last = PrintAdd /\ "add" \in DOMAIN rt.vars
  /\ "add" \notin DOMAIN rt.funcs /\ err.cls = "NameError"

\* some statement of stmts is of this kind
HasKind(stmts, kind) == \E i \in 1..Len(stmts) : stmts[i].kind = kind

\* C11, a line at the REPL.  A line without a use statement (let, print, expression
\* statements, whatever they evaluate) leaves funcs as it was; a line without a let
\* statement (use of any extension included) leaves vars as it was.  `print v`
\* depends on vars alone: the bound value, or NameError for v not in vars, whether
\* v is a registered function or not.  `print f(<literals>)` depends on funcs alone:
\* NameError for f not in funcs, otherwise what the capability funcs[f] returns,
\* whether f is bound as a variable or not.
C11_Step ==
  ReplStep =>
    LET stmts == LineStmts(last') IN
      /\ ~HasKind(stmts, "use") => rt'.funcs = rt.funcs
      /\ ~HasKind(stmts, "let") => rt'.vars = rt.vars
      /\ IsPrintVar(last') =>
           LET v == stmts[1].e.name IN
             IF v \in DOMAIN rt.vars
             THEN err' = NoErr /\ replOut' = Append(replOut, rt.vars[v])
             ELSE err' = Error("NameError", "undefined variable: " \o v) /\ replOut' = replOut
      /\ SoleCall(last') # NoNode =>
           LET c == SoleCall(last')
               argv == [i \in 1..Len(c.args) |-> c.args[i].val]
           IN IF c.name \notin DOMAIN rt.funcs
              THEN err' = Error("NameError", "function not found: " \o c.name)
              ELSE LET own == Apply(rt.funcs[c.name], argv) IN
                   own.err = NoErr => err' = NoErr /\ replOut' = Append(replOut, own.val)

\* C11: variables and functions are two independent namespaces.
C11_SeparateNamespaces == [][C11_Step]_vars

\* C11 witness: after let type = 1 the built-in type(1) gave "int", and after use ea
\* the registered name double is an undefined variable
C11_Witness ==
  /\ entry = "repl" /\ last = PrintDoubleVar
  /\ err = Error("NameError", "undefined variable: double")
  /\ replOut = <<StrV("int")>>
  /\ rt.vars = Put(EmptyMap, "type", IntV(1))
  /\ {"type", "double"} \subseteq DOMAIN rt.funcs

(***************************************************************************)
(* Properties of the lexer and the parser                                  *)
(***************************************************************************)
\* The grouping of standard algebra, read off the tokens tk[lo..hi] without
\* descending by precedence level: an expression splits at its last binary + or -
\* outside parentheses; failing that at its last * or / outside parentheses; failing
\* that it is a sign applied to the rest, a parenthesised expression, or a number.
Depth(tk, lo, j) ==
  Cardinality({q \in lo..(j - 1) : tk[q].kind = "("}) - Cardinality({q \in lo..(j - 1) : tk[q].kind = ")"})

IsBinaryAt(tk, lo, j, ops) ==
  /\ tk[j].kind \in ops
  /\ j > lo
  /\ tk[j - 1].kind \in {"NUMBER", ")"}
  /\ Depth(tk, lo, j) = 0

Max(S) == CHOOSE x \in S : \A y \in S : y <= x

RECURSIVE Algebra(_, _, _)
Algebra(tk, lo, hi) ==
  LET adds == {j \in lo..hi : IsBinaryAt(tk, lo, j, {"+", "-"})}
      muls == {j \in lo..hi : IsBinaryAt(tk, lo, j, {"*", "/"})}
      Split(j) == [kind |-> "binop", op |-> tk[j].kind,
                   a |-> Algebra(tk, lo, j - 1), b |-> Algebra(tk, j + 1, hi)]
  IN CASE lo > hi -> NoNode
       [] lo <= hi /\ adds # {} -> Split(Max(adds))
       [] lo <= hi /\ adds = {} /\ muls # {} -> Split(Max(muls))
       [] lo <= hi /\ adds = {} /\ muls = {} /\ tk[lo].kind \in {"+", "-"} ->
            [kind |-> "unary", op |-> tk[lo].kind, e |-> Algebra(tk, lo + 1, hi)]
       [] lo < hi /\ adds = {} /\ muls = {} /\ tk[lo].kind = "(" /\ tk[hi].kind = ")" ->
            Algebra(tk, lo + 1, hi - 1)
       [] lo = hi /\ tk[lo].kind = "NUMBER" -> [kind |-> "num", val |-> tk[lo].value]
       [] OTHER -> NoNode

\* the value of an expression given as text, with no variables bound
ValueOf(text) ==
  eval(parse_expr(lex(text).toks, 1).node, [rt |-> Runtime, out |-> <<>>]).val

TreeOf(text) == parse_expr(lex(text).toks, 1).node

\* 2 + 3 * 4 is 14, (2 + 3) * 4 is 20, 10 - 3 - 2 is (10 - 3) - 2
C3_Examples ==
  /\ ValueOf(<<"2", " ", "+", " ", "3", " ", "*", " ", "4">>) = IntV(14)
  /\ ValueOf(<<"(", "2", " ", "+", " ", "3", ")", " ", "*", " ", "4">>) = IntV(20)
  /\ ValueOf(<<"1", "0", " ", "-", " ", "3", " ", "-", " ", "2">>) = IntV(5)
  /\ TreeOf(<<"1", "0", " ", "-", " ", "3", " ", "-", " ", "2">>) =
       TreeOf(<<"(", "1", "0", " ", "-", " ", "3", ")", " ", "-", " ", "2">>)

\* C3: on every text of numbers, + - * /, signs and parentheses, the tree
\* parse_expr builds from the tokens it takes is the grouping of standard algebra.
C3_StandardGrouping ==
  /\ C3_Examples
  /\ (phase = "expr" /\ src \in ExprSrcs /\ pres.ok) =>
       pres.node = Algebra(lx.toks, 1, pres.i - 1)

\* C3 witness: 2-2*2 parsed as 2 - (2 * 2)
C3_Witness ==
  /\ phase = "expr" /\ src = <<"2", "-", "2", "*", "2">> /\ pres.ok
  /\ pres.node.kind = "binop" /\ pres.node.op = "-"
  /\ pres.node.b.kind = "binop" /\ pres.node.b.op = "*"

\* C6 as stated: a text with a character no rule matches (here ; outside any string)
\* makes lex fail; it is never lexed as if the character were not there.
C6_LexRejectsUnmatched ==
  (phase # "src" /\ (\E i \in 1..Len(src) : src[i] = ";")
     /\ (\A i \in 1..Len(src) : src[i] # "\"")) => ~lx.ok

\* C9 as stated: in an accepted program every statement after the first begins
\* right after a NEWLINE token.
C9_NewlineBetweenStatements ==
  (phase = "prog" /\ pres.ok) =>
     \A k \in 2..Len(pres.starts) : lx.toks[pres.starts[k] - 1].kind = "NEWLINE"

====
